---- MODULE Spec2Model ----
(***************************************************************************)
(* LocalAIHub: the request orchestration of src/api.py.                    *)
(*                                                                         *)
(* Text is a sequence of one-character strings, so that lower(), strip()   *)
(* and the substring test `in` are computed character by character.        *)
(* Rendered replies are records naming the template and what it embeds.    *)
(* The clock counts milliseconds, so round(x, 3) of a duration in seconds  *)
(* keeps every digit the clock has.                                        *)
(***************************************************************************)
EXTENDS Integers, Sequences, FiniteSets, TLC

VARIABLES
    total_requests,  \* LocalAIHub.total_requests
    log,             \* the records of LOG_FILE, in file order
    stdout,          \* number of "Could not save log" lines printed
    sent,            \* number of POSTs sent to OLLAMA_API_URL
    ollama,          \* the condition of the backend: what a POST to it yields
    now,             \* the wall clock
    pc,              \* per request: where its handler thread is
    frame,           \* per request: the locals of its generate_response call
    inbox,           \* per request: the JSON body posted
    http,            \* per request: the HTTP response produced
    returned,        \* request_id of every result returned, in order of return
    log_entry,       \* per request: the log_entry built by its _save_interaction call
    status_http,     \* the last response of GET /status
    cli,             \* what the last `status` command of the CLI displayed
    chat             \* the chat mode of the CLI: whether it runs, what it has sent

vars ==
    <<total_requests, log, stdout, sent, ollama, now, pc, frame, inbox, http, returned,
      log_entry, status_http, cli, chat>>

-----------------------------------------------------------------------------
(* Bounds *)

\* The server handles each request on a thread of its own (app.run, threaded)
NumRequests == 2
MaxTime == 1

Requests == 1..NumRequests

-----------------------------------------------------------------------------
(* Program constants *)

DEFAULT_AI_MODEL == "llama2"
FALLBACK_MODEL == "fallback-response"
ECHO_LEN == 50

-----------------------------------------------------------------------------
(* Python str operations *)

ToLower ==
    [c \in {"A","C","D","E","H","I","L","M","N","O","P","Q","R","T","U","W","X","Y"} |->
        CASE c = "A" -> "a" [] c = "C" -> "c" [] c = "D" -> "d" [] c = "E" -> "e"
          [] c = "H" -> "h" [] c = "I" -> "i" [] c = "L" -> "l" [] c = "M" -> "m"
          [] c = "N" -> "n" [] c = "O" -> "o" [] c = "P" -> "p" [] c = "R" -> "r"
          [] c = "T" -> "t" [] c = "U" -> "u" [] c = "W" -> "w" [] c = "Y" -> "y"
          [] c = "Q" -> "q" [] c = "X" -> "x"]

\* str.lower()
lower(s) == [i \in 1..Len(s) |-> IF s[i] \in DOMAIN ToLower THEN ToLower[s[i]] ELSE s[i]]

Whitespace == {" ", "\t", "\n"}

RECURSIVE lstrip(_)
lstrip(s) == IF s # <<>> /\ Head(s) \in Whitespace THEN lstrip(Tail(s)) ELSE s

RECURSIVE rstrip(_)
rstrip(s) ==
    IF s # <<>> /\ s[Len(s)] \in Whitespace THEN rstrip(SubSeq(s, 1, Len(s) - 1)) ELSE s

\* str.strip()
strip(s) == rstrip(lstrip(s))

\* word in s
Contains(word, s) ==
    \E i \in 0..(Len(s) - Len(word)) : SubSeq(s, i + 1, i + Len(word)) = word

\* any(word in s for word in words)
any(words, s) == \E w \in words : Contains(w, s)

\* s[:n]
Prefix(s, n) == SubSeq(s, 1, IF Len(s) < n THEN Len(s) ELSE n)

-----------------------------------------------------------------------------
(* Values *)

\* Python None, as a reply text and as an error
NoText == [tpl |-> "None", model |-> "", echo |-> <<>>, time |-> 0]
NoError == [kind |-> "None", status |-> 0, text |-> ""]

Text(tpl, m, echo, t) == [tpl |-> tpl, model |-> m, echo |-> echo, time |-> t]
Error(kind, status, text) == [kind |-> kind, status |-> status, text |-> text]

\* JSON values of a request body
JStr(s) == [type |-> "str", val |-> s]
JNull == [type |-> "null", val |-> <<>>]

-----------------------------------------------------------------------------
(* Fallback Responder *)

W_hello == <<"h","e","l","l","o">>
W_hi == <<"h","i">>
W_hey == <<"h","e","y">>
W_who == <<"w","h","o">>
W_what_are_you == <<"w","h","a","t"," ","a","r","e"," ","y","o","u">>
W_help == <<"h","e","l","p">>
W_what_can_you_do == <<"w","h","a","t"," ","c","a","n"," ","y","o","u"," ","d","o">>
W_time == <<"t","i","m","e">>

\* Every reply is stamped with the time, not only the reply of rule 4
_create_fallback_response_stamped(user_input, clock) ==
    LET input_lower == lower(user_input) IN
    IF any({W_hello, W_hi, W_hey}, input_lower)
        THEN Text("Hi there! I'm your local AI", DEFAULT_AI_MODEL, <<>>, clock)
    ELSE IF any({W_who, W_what_are_you}, input_lower)
        THEN Text("I'm LocalAIHub", DEFAULT_AI_MODEL, <<>>, clock)
    ELSE IF any({W_help, W_what_can_you_do}, input_lower)
        THEN Text("I can answer questions", "", <<>>, clock)
    ELSE IF Contains(W_time, input_lower)
        THEN Text("It's currently", "", <<>>, clock)
    ELSE Text("You said", DEFAULT_AI_MODEL, Prefix(user_input, ECHO_LEN), clock)

\* The rules with "time" tested before "help"
_create_fallback_response_time_first(user_input, clock) ==
    LET input_lower == lower(user_input) IN
    IF any({W_hello, W_hi, W_hey}, input_lower)
        THEN Text("Hi there! I'm your local AI", DEFAULT_AI_MODEL, <<>>, 0)
    ELSE IF any({W_who, W_what_are_you}, input_lower)
        THEN Text("I'm LocalAIHub", DEFAULT_AI_MODEL, <<>>, 0)
    ELSE IF Contains(W_time, input_lower)
        THEN Text("It's currently", "", <<>>, clock)
    ELSE IF any({W_help, W_what_can_you_do}, input_lower)
        THEN Text("I can answer questions", "", <<>>, 0)
    ELSE Text("You said", DEFAULT_AI_MODEL, Prefix(user_input, ECHO_LEN), 0)

\* LocalAIHub._create_fallback_response; clock is what datetime.now() reads
_create_fallback_response(user_input, clock) ==
    LET input_lower == lower(user_input) IN
    IF any({W_hello, W_hi, W_hey}, input_lower)
        THEN Text("Hi there! I'm your local AI", DEFAULT_AI_MODEL, <<>>, 0)
    ELSE IF any({W_who, W_what_are_you}, input_lower)
        THEN Text("I'm LocalAIHub", DEFAULT_AI_MODEL, <<>>, 0)
    ELSE IF any({W_help, W_what_can_you_do}, input_lower)
        THEN Text("I can answer questions", "", <<>>, 0)
    ELSE IF Contains(W_time, input_lower)
        THEN Text("It's currently", "", <<>>, clock)
    ELSE Text("You said", DEFAULT_AI_MODEL, Prefix(user_input, ECHO_LEN), 0)

-----------------------------------------------------------------------------
(* Backend Client *)

\* What one POST to the backend yields: an HTTP reply or a raised exception
HttpReply(status, json, has_response, response) ==
    [kind |-> "http", status |-> status, json |-> json,
     has_response |-> has_response, response |-> response, exc |-> ""]
Raises(exc) ==
    [kind |-> "raise", status |-> 0, json |-> "", has_response |-> FALSE,
     response |-> NoText, exc |-> exc]

RemoteText == Text("remote", "", <<"o","k">>, 0)

Replies ==
    { HttpReply(200, "object", TRUE, RemoteText),   \* {"response": "ok"}
      HttpReply(200, "object", FALSE, NoText),      \* {}
      HttpReply(200, "object", TRUE, NoText),       \* {"response": null}
      HttpReply(200, "list", FALSE, NoText),        \* []
      HttpReply(200, "invalid", FALSE, NoText),     \* a body that is not JSON
      HttpReply(404, "object", FALSE, NoText),
      HttpReply(500, "invalid", FALSE, NoText),
      Raises("ConnectionError"),
      Raises("ConnectTimeout"),
      Raises("ReadTimeout"),
      Raises("TooManyRedirects") }

\* The classes an exception is an instance of (requests.exceptions)
Classes(exc) ==
    {"BaseException"} \cup
    CASE exc = "ConnectionError" -> {"ConnectionError", "RequestException", "Exception"}
      [] exc = "ConnectTimeout" ->
            {"ConnectTimeout", "ConnectionError", "Timeout", "RequestException", "Exception"}
      [] exc = "ReadTimeout" -> {"ReadTimeout", "Timeout", "RequestException", "Exception"}
      [] exc = "JSONDecodeError" -> {"JSONDecodeError", "RequestException", "Exception"}
      [] OTHER -> {exc, "Exception"}

\* result["response"] in place of result.get("response", ...)
RaisedInTry_indexing(reply) ==
    IF reply.kind = "raise" THEN reply.exc
    ELSE IF reply.status = 200 /\ reply.json = "invalid" THEN "JSONDecodeError"
    ELSE IF reply.status = 200 /\ reply.json # "object" THEN "AttributeError"
    ELSE IF reply.status = 200 /\ ~reply.has_response THEN "KeyError"
    ELSE ""

\* The exception raised inside the try block of _query_ollama, "" when none is
RaisedInTry(reply) ==
    IF reply.kind = "raise" THEN reply.exc
    ELSE IF reply.status = 200 /\ reply.json = "invalid" THEN "JSONDecodeError"
    ELSE IF reply.status = 200 /\ reply.json # "object" THEN "AttributeError"
    ELSE ""

\* Without the last clause, except Exception
QueryHandlers_no_catch_all == <<"ConnectionError", "Timeout">>

\* The except clauses of _query_ollama, in order: the class each one catches
QueryHandlers == <<"ConnectionError", "Timeout", "Exception">>

\* The first except clause of `handlers` that catches exc, 0 when none does
Catches(handlers, exc) ==
    IF \E i \in 1..Len(handlers) : handlers[i] \in Classes(exc)
        THEN CHOOSE i \in 1..Len(handlers) :
                /\ handlers[i] \in Classes(exc)
                /\ \A j \in 1..(i - 1) : handlers[j] \notin Classes(exc)
        ELSE 0

\* LocalAIHub._query_ollama: (response, error) for what the POST yielded;
\* raises names the exception that leaves the function, "" when none does
_query_ollama(reply) ==
    LET exc == RaisedInTry(reply)
        clause == Catches(QueryHandlers, exc)
        Returns(response, error) == [response |-> response, error |-> error, raises |-> ""]
    IN  IF exc # "" THEN
            CASE clause = 1 ->
                    Returns(NoText, Error("Ollama isn't running - please start it!", 0, ""))
              [] clause = 2 -> Returns(NoText, Error("Request took too long", 0, ""))
              [] clause = 3 -> Returns(NoText, Error("Something went wrong", 0, exc))
              [] OTHER -> [response |-> NoText, error |-> NoError, raises |-> exc]
        ELSE IF reply.status = 200 THEN
            Returns(IF reply.has_response THEN reply.response
                    ELSE Text("No response generated", "", <<>>, 0),
                    NoError)
        ELSE Returns(NoText, Error("Ollama API error", reply.status, ""))

-----------------------------------------------------------------------------
(* Orchestrator *)

\* The counter stored back as it was loaded
Incremented_not(loaded) == loaded

\* self.total_requests += 1, the value stored for the value loaded
Incremented(loaded) == loaded + 1

\* The requested model reported on the fallback path too
Decide_requested_model(q, user_input, model, clock) ==
    IF q.response = NoText
        THEN [response |-> _create_fallback_response(user_input, clock),
              model_used |-> model, error |-> q.error]
        ELSE [response |-> q.response, model_used |-> model, error |-> NoError]

\* generate_response, lines 105-111: the reply used and the model reported
Decide(q, user_input, model, clock) ==
    IF q.response = NoText
        THEN [response |-> _create_fallback_response(user_input, clock),
              model_used |-> FALLBACK_MODEL, error |-> q.error]
        ELSE [response |-> q.response, model_used |-> model, error |-> NoError]

\* _save_interaction, lines 38-46: the record written
LogEntry(f, counter, clock) ==
    [timestamp |-> clock, user_input |-> f.user_input, ai_response |-> f.response,
     model |-> f.model_used, time_taken_seconds |-> f.time_taken, error |-> f.error,
     request_id |-> counter]

\* generate_response, lines 118-124: the dictionary returned
Result(f, counter) ==
    [response |-> f.response, model |-> f.model_used,
     time_taken_seconds |-> f.time_taken, offline |-> TRUE, request_id |-> counter]

NoResult ==
    [response |-> NoText, model |-> "", time_taken_seconds |-> 0, offline |-> FALSE,
     request_id |-> 0]

EmptyFrame ==
    [user_input |-> <<>>, model |-> "", loaded |-> 0, reply |-> Raises(""),
     response |-> NoText, error |-> NoError, model_used |-> "", start_time |-> 0,
     time_taken |-> 0]

-----------------------------------------------------------------------------
(* Transport: the /generate route *)

\* jsonify(...), status
Response(status, error, detail, result) ==
    [status |-> status, error |-> error, detail |-> detail, result |-> result]

NoResponse == Response(0, "", "", NoResult)

\* except Exception in generate(): an exception raised while handling the request
Failed(exc) == Response(500, "Something went wrong", exc, NoResult)

P_empty == <<>>
P_blank == <<" ", "\t">>
P_Hi == <<"H", "i">>
P_time == <<"t", "i", "m", "e", " ">>

\* The JSON bodies a client posts
Bodies ==
    { <<>>,
      [model |-> FALLBACK_MODEL],
      [prompt |-> JStr(P_empty)],
      [prompt |-> JStr(P_blank), model |-> FALLBACK_MODEL],
      [prompt |-> JNull],
      [prompt |-> JStr(P_Hi)],
      [prompt |-> JStr(P_time), model |-> FALLBACK_MODEL] }

\* Without the test of line 165
Validate_no_strip(data) ==
    IF DOMAIN data = {} \/ "prompt" \notin DOMAIN data THEN "missing"
    ELSE IF data.prompt.type # "str" THEN "AttributeError"
    ELSE "ok"

\* generate(), lines 157-166: what the route does with the body
Validate(data) ==
    IF DOMAIN data = {} \/ "prompt" \notin DOMAIN data THEN "missing"
    ELSE IF data.prompt.type # "str" THEN "AttributeError"
    ELSE IF strip(data.prompt.val) = <<>> THEN "empty"
    ELSE "ok"

-----------------------------------------------------------------------------
(* The state machine *)

\* The backend keeps one condition throughout a run; every one of Replies is tried
\* _save_interaction has not built a log_entry for the request yet
NoEntry == LogEntry(EmptyFrame, 0, 0)

\* GET /status has not been answered yet
NoStatus == [code |-> 0, probe |-> Raises(""), body |-> [error |-> "", detail |-> ""]]

\* The CLI has not run its `status` command yet
NoDisplay == [shown |-> "nothing", questions_answered |-> 0, ollama_running |-> FALSE]

\* chat_mode before its first input(): the loop waits for input, nothing was
\* sent, nothing was typed
ChatStart == [at |-> "input", asked |-> <<>>, event |-> [kind |-> "none", text |-> <<>>]]

Init ==
    /\ total_requests = 0
    /\ log = <<>>
    /\ stdout = 0
    /\ sent = 0
    /\ ollama \in Replies
    /\ now = 0
    /\ pc = [r \in Requests |-> "new"]
    /\ frame = [r \in Requests |-> EmptyFrame]
    /\ inbox = [r \in Requests |-> <<>>]
    /\ http = [r \in Requests |-> NoResponse]
    /\ returned = <<>>
    /\ log_entry = [r \in Requests |-> NoEntry]
    /\ status_http = NoStatus
    /\ cli = NoDisplay
    /\ chat = ChatStart

\* time passes
Tick ==
    /\ now < MaxTime
    /\ now' = now + 1
    /\ UNCHANGED <<total_requests, log, stdout, sent, ollama, pc, frame, inbox, http, returned>>
    /\ UNCHANGED <<log_entry, status_http, cli, chat>>

\* POST /generate number r arrives: generate() up to the call of
\* generate_response, then lines 99-100 up to the load of self.total_requests
generate(r, data) ==
    /\ pc[r] = "new"
    /\ IF r = 1 THEN TRUE ELSE pc[r - 1] # "new"
    /\ inbox' = [inbox EXCEPT ![r] = data]
    /\ LET verdict == Validate(data) IN
       CASE verdict = "missing" ->
                /\ http' = [http EXCEPT ![r] =
                        Response(400, "Please include a 'prompt' in your request", "", NoResult)]
                /\ pc' = [pc EXCEPT ![r] = "done"]
                /\ UNCHANGED frame
         [] verdict = "empty" ->
                /\ http' = [http EXCEPT ![r] =
                        Response(400, "Prompt cannot be empty", "", NoResult)]
                /\ pc' = [pc EXCEPT ![r] = "done"]
                /\ UNCHANGED frame
         [] verdict = "ok" ->
                /\ frame' = [frame EXCEPT ![r] =
                        [EmptyFrame EXCEPT
                            !.user_input = data.prompt.val,
                            !.model = IF "model" \in DOMAIN data THEN data.model
                                      ELSE DEFAULT_AI_MODEL,
                            !.start_time = now,
                            !.loaded = total_requests]]
                /\ pc' = [pc EXCEPT ![r] = "store"]
                /\ UNCHANGED http
         [] OTHER ->
                /\ http' = [http EXCEPT ![r] = Failed(verdict)]
                /\ pc' = [pc EXCEPT ![r] = "done"]
                /\ UNCHANGED frame
    /\ UNCHANGED <<total_requests, log, stdout, sent, ollama, now, returned>>
    /\ UNCHANGED <<log_entry, status_http, cli, chat>>

\* line 100, the store of self.total_requests += 1
Store(r) ==
    /\ pc[r] = "store"
    /\ total_requests' = Incremented(frame[r].loaded)
    /\ pc' = [pc EXCEPT ![r] = "query"]
    /\ UNCHANGED <<log, stdout, sent, ollama, now, frame, inbox, http, returned>>
    /\ UNCHANGED <<log_entry, status_http, cli, chat>>

\* requests.post without timeout=: a backend that never answers blocks the call
Query_no_timeout(r) ==
    /\ pc[r] = "query"
    /\ ollama # Raises("ReadTimeout")
    /\ sent' = sent + 1
    /\ LET q == _query_ollama(ollama)
           d == Decide(q, frame[r].user_input, frame[r].model, now)
       IN  IF q.raises # ""
           THEN /\ http' = [http EXCEPT ![r] = Failed(q.raises)]
                /\ pc' = [pc EXCEPT ![r] = "done"]
                /\ frame' = [frame EXCEPT ![r].reply = ollama]
           ELSE /\ frame' = [frame EXCEPT ![r].reply = ollama,
                                          ![r].response = d.response,
                                          ![r].model_used = d.model_used,
                                          ![r].error = d.error,
                                          ![r].time_taken = now - frame[r].start_time]
                /\ pc' = [pc EXCEPT ![r] = "save"]
                /\ UNCHANGED http
    /\ UNCHANGED <<total_requests, log, stdout, ollama, now, inbox, returned>>
    /\ UNCHANGED <<log_entry, status_http, cli, chat>>

\* lines 103-113: the backend attempt, the fallback decision, the elapsed time
Query(r) ==
    /\ pc[r] = "query"
    /\ sent' = sent + 1
    /\ LET q == _query_ollama(ollama)
           d == Decide(q, frame[r].user_input, frame[r].model, now)
       IN  IF q.raises # ""
           THEN /\ http' = [http EXCEPT ![r] = Failed(q.raises)]
                /\ pc' = [pc EXCEPT ![r] = "done"]
                /\ frame' = [frame EXCEPT ![r].reply = ollama]
           ELSE /\ frame' = [frame EXCEPT ![r].reply = ollama,
                                          ![r].response = d.response,
                                          ![r].model_used = d.model_used,
                                          ![r].error = d.error,
                                          ![r].time_taken = now - frame[r].start_time]
                /\ pc' = [pc EXCEPT ![r] = "save"]
                /\ UNCHANGED http
    /\ UNCHANGED <<total_requests, log, stdout, ollama, now, inbox, returned>>
    /\ UNCHANGED <<log_entry, status_http, cli, chat>>

\* A clause that catches less than the error of a failed write
SaveHandlers_narrow == <<"ValueError">>

\* The except clause of _save_interaction
SaveHandlers == <<"Exception">>

\* except: pass, the failure is not reported
_save_interaction_silent(r, writable) ==
    /\ pc[r] = "save"
    /\ IF writable
       THEN log' = Append(log, LogEntry(frame[r], total_requests, now))
       ELSE UNCHANGED log
    /\ pc' = [pc EXCEPT ![r] = "return"]
    /\ UNCHANGED <<total_requests, stdout, sent, ollama, now, frame, inbox, http, returned>>
    /\ log_entry' = [log_entry EXCEPT ![r] = LogEntry(frame[r], total_requests, now)]
    /\ UNCHANGED <<status_http, cli, chat>>

\* line 116, _save_interaction: writable says whether open() and write() succeed
_save_interaction(r, writable) ==
    /\ pc[r] = "save"
    /\ IF writable
       THEN /\ log' = Append(log, LogEntry(frame[r], total_requests, now))
            /\ pc' = [pc EXCEPT ![r] = "return"]
            /\ UNCHANGED <<stdout, http>>
       ELSE IF Catches(SaveHandlers, "OSError") # 0
       THEN /\ stdout' = stdout + 1
            /\ pc' = [pc EXCEPT ![r] = "return"]
            /\ UNCHANGED <<log, http>>
       ELSE /\ http' = [http EXCEPT ![r] = Failed("OSError")]
            /\ pc' = [pc EXCEPT ![r] = "done"]
            /\ UNCHANGED <<log, stdout>>
    /\ UNCHANGED <<total_requests, sent, ollama, now, frame, inbox, returned>>
    /\ log_entry' = [log_entry EXCEPT ![r] = LogEntry(frame[r], total_requests, now)]
    /\ UNCHANGED <<status_http, cli, chat>>

\* lines 118-124 and generate() line 169: the result goes back to the client
Return(r) ==
    /\ pc[r] = "return"
    /\ http' = [http EXCEPT ![r] = Response(200, "", "", Result(frame[r], total_requests))]
    /\ returned' = Append(returned, total_requests)
    /\ pc' = [pc EXCEPT ![r] = "done"]
    /\ UNCHANGED <<total_requests, log, stdout, sent, ollama, now, frame, inbox>>
    /\ UNCHANGED <<log_entry, status_http, cli, chat>>

\* Handler threads run concurrently
Next ==
    \/ Tick
    \/ \E r \in Requests, data \in Bodies : generate(r, data)
    \/ \E r \in Requests : Store(r)
    \/ \E r \in Requests : Query(r)
    \/ \E r \in Requests, writable \in BOOLEAN : _save_interaction(r, writable)
    \/ \E r \in Requests : Return(r)

Spec == Init /\ [][Next]_vars

\* No handler thread is inside generate()
Serial == \A r \in Requests : pc[r] \in {"new", "done"}

\* One caller at a time: a request is sent only after the previous one was answered
NextSeq ==
    \/ Tick
    \/ \E r \in Requests, data \in Bodies : Serial /\ generate(r, data)
    \/ \E r \in Requests : Store(r)
    \/ \E r \in Requests : Query(r)
    \/ \E r \in Requests, writable \in BOOLEAN : _save_interaction(r, writable)
    \/ \E r \in Requests : Return(r)

SpecSeq == Init /\ [][NextSeq]_vars

-----------------------------------------------------------------------------
(* The Fallback Responder on its own, over prompts put together from fragments *)

MaxFragments == 2

F_long == [i \in 1..26 |-> "x"]

Fragments ==
    { <<"H","e","l","l","o">>, <<"h","i">>, <<"H","E","Y">>, <<"W","h","o">>,
      W_what_are_you, <<"H","E","L","P">>,
      <<"W","h","a","t"," ","c","a","n"," ","y","o","u"," ","d","o">>,
      <<"T","i","m","e">>, <<"t","i">>, <<"m","e">>, <<" ">>, <<"t">>, F_long }

RECURSIVE Joined(_)
Joined(n) ==
    IF n = 0 THEN {<<>>}
    ELSE Joined(n - 1) \cup {p \o f : p \in Joined(n - 1), f \in Fragments}

FallbackPrompts == Joined(MaxFragments)

\* _create_fallback_response called on user_input, outside any request
FallbackCall(r, user_input) ==
    /\ pc[r] = "new"
    /\ frame[r].response = NoText
    /\ frame' = [frame EXCEPT ![r] =
            [EmptyFrame EXCEPT !.user_input = user_input,
                               !.response = _create_fallback_response(user_input, now)]]
    /\ UNCHANGED <<total_requests, log, stdout, sent, ollama, now, pc, inbox, http, returned>>
    /\ UNCHANGED <<log_entry, status_http, cli, chat>>

\* _create_fallback_response called once more on the prompt of the first call,
\* by a call of generate_response that was asked for another model (line 108)
FallbackAgain(r, model) ==
    /\ r # 1
    /\ pc[r] = "new"
    /\ frame[1].response # NoText
    /\ frame[r].response = NoText
    /\ frame' = [frame EXCEPT ![r] =
            [EmptyFrame EXCEPT !.user_input = frame[1].user_input,
                               !.model = model,
                               !.response = _create_fallback_response(frame[1].user_input, now)]]
    /\ UNCHANGED <<total_requests, log, stdout, sent, ollama, now, pc, inbox, http, returned>>
    /\ UNCHANGED <<log_entry, status_http, cli, chat>>

NextFallback ==
    \/ Tick
    \/ \E user_input \in FallbackPrompts : FallbackCall(1, user_input)
    \/ \E model \in {DEFAULT_AI_MODEL, FALLBACK_MODEL} : FallbackAgain(2, model)

InitFallback == Init /\ ollama = Raises("ConnectionError")

SpecFallback == InitFallback /\ [][NextFallback]_vars

-----------------------------------------------------------------------------
(* Properties *)

\* The body carries a prompt that is a string with a character that is not blank
WellFormed(data) ==
    /\ "prompt" \in DOMAIN data
    /\ data.prompt.type = "str"
    /\ \E i \in 1..Len(data.prompt.val) : data.prompt.val[i] \notin Whitespace

\* The body carries no prompt, or one made of blanks only
Malformed(data) ==
    \/ "prompt" \notin DOMAIN data
    \/ /\ data.prompt.type = "str"
       /\ \A i \in 1..Len(data.prompt.val) : data.prompt.val[i] \in Whitespace

\* The request was answered with the result of generate_response
Answered(r) == pc[r] = "done" /\ http[r].status = 200

\* text is a reply of the Fallback Responder to user_input
IsFallbackOf(text, user_input) ==
    \E c \in 0..now : text = _create_fallback_response(user_input, c)

NonDecreasingIds == \A i, j \in 1..Len(log) : i < j => log[i].request_id <= log[j].request_id

\* C1: once N concurrent calls have all returned, the request_id values they
\* returned are exactly 1..N, without duplicates and without gaps.
C1_DistinctIds ==
    Serial => {returned[i] : i \in 1..Len(returned)} = 1..Len(returned)

\* C2: every request with a well-formed prompt is answered 200 with a response
\* text, whatever the backend attempt yields; no backend failure reaches the
\* caller as an error.
C2_AlwaysResponse ==
    \A r \in Requests :
        pc[r] = "done" /\ WellFormed(inbox[r]) =>
            /\ http[r].status = 200
            /\ http[r].result.response # NoText

C2_Witness ==
    \E r \in Requests :
        /\ Answered(r)
        /\ frame[r].reply = HttpReply(200, "invalid", FALSE, NoText)
        /\ http[r].result.response # NoText

\* C3: with calls made one at a time, every call returns a request_id strictly
\* greater than the one the previous call returned.
C3_StrictlyIncreasing ==
    \A i \in 1..(Len(returned) - 1) : returned[i] < returned[i + 1]

C3_Witness == Len(returned) >= 2 /\ returned[1] < returned[2]

\* C4: a POST /generate whose prompt is missing, empty or blank is answered 400
\* in the step that receives it, and leaves the counter, the backend and the
\* log untouched.
C4_RejectedUnchanged ==
    [][\A r \in Requests :
        pc[r] = "new" /\ pc'[r] # "new" /\ Malformed(inbox'[r]) =>
            /\ pc'[r] = "done"
            /\ http'[r].status = 400
            /\ total_requests' = total_requests
            /\ sent' = sent
            /\ log' = log]_vars

C4_Witness ==
    \E r \in Requests :
        /\ pc[r] = "done"
        /\ inbox[r] = [prompt |-> JStr(P_blank), model |-> FALLBACK_MODEL]
        /\ http[r].status = 400
        /\ total_requests = 0 /\ sent = 0 /\ log = <<>>

\* C5: a call whose backend attempt returns no response text returns the model
\* "fallback-response" and the Fallback Responder's reply to its prompt.
C5_FallbackResult ==
    \A r \in Requests :
        Answered(r) /\ _query_ollama(frame[r].reply).response = NoText =>
            /\ http[r].result.model = FALLBACK_MODEL
            /\ IsFallbackOf(http[r].result.response, inbox[r].prompt.val)

C5_Witness ==
    \E r \in Requests :
        /\ Answered(r)
        /\ frame[r].reply = Raises("ConnectionError")
        /\ inbox[r] = [prompt |-> JStr(P_Hi)]
        /\ http[r].result.model = FALLBACK_MODEL
        /\ http[r].result.response.tpl = "Hi there! I'm your local AI"

\* C6, as claimed: after N calls by a single-threaded caller the log holds
\* exactly N records, with request_id values non-decreasing in call order.
C6_ExactlyOneRecord ==
    Serial => Len(log) = Len(returned) /\ NonDecreasingIds

\* C6, amended: every call appends one record when the write succeeds and
\* prints one warning when it fails; after N calls the records and the warnings
\* together number N, and the request_id values are non-decreasing in call order.
C6_OneRecordOrWarning ==
    /\ Len(log) + stdout = Len(returned) + Cardinality({r \in Requests : pc[r] = "return"})
    /\ NonDecreasingIds

C6_Witness == Serial /\ Len(returned) = 2 /\ Len(log) = 1 /\ stdout = 1

\* C7: the step that logs the interaction goes on to the return, with the
\* locals and the counter as they were, whether the write succeeded or failed;
\* a failed write prints a warning; the result returned is made of the response
\* and model decided before logging and of the counter.
C7_LogFailureHarmless ==
    [][\A r \in Requests :
        /\ pc[r] = "save" /\ pc'[r] # "save" =>
              /\ pc'[r] = "return"
              /\ frame'[r] = frame[r]
              /\ total_requests' = total_requests
              /\ log' = log => stdout' = stdout + 1
        /\ pc[r] = "return" /\ pc'[r] # "return" =>
              /\ pc'[r] = "done"
              /\ http'[r].status = 200
              /\ http'[r].result.response = frame[r].response
              /\ http'[r].result.model = frame[r].model_used
              /\ http'[r].result.request_id = total_requests]_vars

C7_Witness ==
    \E r \in Requests :
        /\ Answered(r)
        /\ stdout = 1 /\ log = <<>> /\ Len(returned) = 1
        /\ http[r].result.request_id = 1

\* C8: in every log record, error is non-null exactly when model is
\* "fallback-response".
C8_ErrorIffFallback ==
    \A i \in 1..Len(log) : (log[i].error # NoError) <=> (log[i].model = FALLBACK_MODEL)

\* C9, as claimed: on an HTTP 200 reply the call has no error and its response
\* is not a fallback reply.
C9_OkNeverFails ==
    \A r \in Requests :
        frame[r].reply.kind = "http" /\ frame[r].reply.status = 200 =>
            /\ frame[r].error = NoError
            /\ ~IsFallbackOf(frame[r].response, frame[r].user_input)

\* C9, amended: on an HTTP 200 reply whose body is a JSON object, no error is
\* reported; the response is the value of the response field, or "No response
\* generated" when the field is absent, and the fallback path is taken only
\* when the field is null. A 200 reply whose body is not a JSON object gives a
\* "Something went wrong" error and the fallback path.
C9_OkObjectNeverFails ==
    \A r \in Requests :
        LET reply == frame[r].reply IN
        reply.kind = "http" /\ reply.status = 200 =>
            IF reply.json = "object" /\ ~reply.has_response
                THEN /\ frame[r].error = NoError
                     /\ frame[r].response = Text("No response generated", "", <<>>, 0)
                     /\ frame[r].model_used = frame[r].model
            ELSE IF reply.json = "object" /\ reply.response # NoText
                THEN /\ frame[r].error = NoError
                     /\ frame[r].response = reply.response
                     /\ frame[r].model_used = frame[r].model
            ELSE IF reply.json = "object"
                THEN /\ frame[r].error = NoError
                     /\ IsFallbackOf(frame[r].response, frame[r].user_input)
                     /\ frame[r].model_used = FALLBACK_MODEL
            ELSE /\ frame[r].error.kind = "Something went wrong"
                 /\ IsFallbackOf(frame[r].response, frame[r].user_input)
                 /\ frame[r].model_used = FALLBACK_MODEL

C9_Witness ==
    \E r \in Requests :
        /\ Answered(r)
        /\ frame[r].reply = HttpReply(200, "object", FALSE, NoText)
        /\ http[r].result.response.tpl = "No response generated"
        /\ http[r].result.model = DEFAULT_AI_MODEL

\* a is the letter b, in either case (b is lower case)
SameLetter(a, b) == a = b \/ (a \in DOMAIN ToLower /\ ToLower[a] = b)

\* word occurs in s, case ignored
Occurs(word, s) ==
    \E i \in 0..(Len(s) - Len(word)) :
        \A k \in 1..Len(word) : SameLetter(s[i + k], word[k])

\* The trigger words of rule n
Triggers(n) ==
    CASE n = 1 -> {W_hello, W_hi, W_hey}
      [] n = 2 -> {W_who, W_what_are_you}
      [] n = 3 -> {W_help, W_what_can_you_do}
      [] n = 4 -> {W_time}
      [] OTHER -> {}

Matches(n, s) == n = 5 \/ \E w \in Triggers(n) : Occurs(w, s)

FirstRule(s) == CHOOSE n \in 1..5 : Matches(n, s) /\ \A m \in 1..(n - 1) : ~Matches(m, s)

\* The reply of rule n
Template(n, s, c) ==
    CASE n = 1 -> Text("Hi there! I'm your local AI", DEFAULT_AI_MODEL, <<>>, 0)
      [] n = 2 -> Text("I'm LocalAIHub", DEFAULT_AI_MODEL, <<>>, 0)
      [] n = 3 -> Text("I can answer questions", "", <<>>, 0)
      [] n = 4 -> Text("It's currently", "", <<>>, c)
      [] OTHER -> Text("You said", DEFAULT_AI_MODEL, Prefix(s, ECHO_LEN), 0)

\* C10: the reply to a prompt is the template of the lowest-numbered rule whose
\* trigger occurs in it, case ignored; the timestamp reply is given exactly when
\* "time" occurs and no trigger of rules 1 to 3 does.
C10_FirstMatchWins ==
    LET s == frame[1].user_input
        reply == frame[1].response
    IN  pc[1] = "new" /\ reply # NoText =>
            /\ \E c \in 0..now : reply = Template(FirstRule(s), s, c)
            /\ reply.tpl = "It's currently" <=>
                    /\ Occurs(W_time, s)
                    /\ \A n \in 1..3 : ~Matches(n, s)

C10_Witness ==
    /\ frame[1].user_input = <<"H","E","L","P">> \o <<"T","i","m","e">>
    /\ frame[1].response.tpl = "I can answer questions"

\* C11: every request that fails inside the HTTP layer is answered 500 with the
\* fixed message "Something broke on our end", and the body carries no text of
\* the exception.
C11_GenericError ==
    \A r \in Requests :
        http[r].status = 500 =>
            /\ http[r].error = "Something broke on our end"
            /\ http[r].detail = ""

\* The call of request r took the fallback path of generate_response
TookFallback(r) == _query_ollama(frame[r].reply).response = NoText

\* C12: a returned result carries the model "fallback-response" exactly when the
\* call took the fallback path, whatever model the caller asked for.
C12_SentinelIffFallback ==
    \A r \in Requests :
        Answered(r) => (http[r].result.model = FALLBACK_MODEL <=> TookFallback(r))

\* The requests sent while progress is observed
LiveBodies ==
    { [prompt |-> JStr(P_Hi)],
      [prompt |-> JStr(P_time), model |-> FALLBACK_MODEL] }

\* The backend attempt ends by a reply, by an error or by a timeout
InitLive ==
    /\ Init
    /\ ollama \in { HttpReply(200, "object", TRUE, RemoteText),
                    HttpReply(404, "object", FALSE, NoText),
                    Raises("ReadTimeout") }

NextLive ==
    \/ \E r \in Requests, data \in LiveBodies : generate(r, data)
    \/ \E r \in Requests : Store(r)
    \/ \E r \in Requests : Query(r)
    \/ \E r \in Requests, writable \in BOOLEAN : _save_interaction(r, writable)
    \/ \E r \in Requests : Return(r)

\* The server runs one thread per request and the scheduler lets every thread
\* that can take a step take it; requests.post returns or raises within its
\* timeout, open() and write() return or raise.
Scheduled(r) ==
    /\ WF_vars(Store(r))
    /\ WF_vars(Query(r))
    /\ WF_vars(\E writable \in BOOLEAN : _save_interaction(r, writable))
    /\ WF_vars(Return(r))

SpecLive == InitLive /\ [][NextLive]_vars /\ \A r \in Requests : Scheduled(r)

\* The log holds the record that the call of request r built
Recorded(r) == \E i \in 1..Len(log) : log[i] = log_entry[r]

\* C13, as claimed: a call that has returned has appended its log record.
C13_ReturnedIsRecorded ==
    \A r \in Requests : Answered(r) => Recorded(r)

\* The steps of generate_response, in the order of the code
StepOrder ==
    { <<"new", "store">>, <<"store", "query">>, <<"query", "save">>,
      <<"save", "return">>, <<"return", "done">> }

\* C13, amended: every call that has started finishes its backend attempt, then
\* builds its log record and either appends it or prints a warning, then
\* returns its result; no step is skipped.
C13_StartedEventuallyReturns ==
    /\ [][\A r \in Requests :
            pc'[r] # pc[r] /\ WellFormed(inbox'[r]) => <<pc[r], pc'[r]>> \in StepOrder]_vars
    /\ \A r \in Requests :
            pc[r] = "store" ~>
                /\ Answered(r)
                /\ frame[r].reply = ollama
                /\ log_entry[r] # NoEntry
                /\ Recorded(r) \/ stdout >= 1

C13_Witness ==
    \E r \in Requests :
        /\ Answered(r)
        /\ ~Recorded(r)
        /\ stdout >= 1
        /\ \E q \in Requests : pc[q] \in {"store", "query", "save", "return"}

\* The fallback responder was invoked twice on the same prompt
InvokedTwice ==
    /\ frame[1].response # NoText
    /\ frame[2].response # NoText
    /\ frame[1].user_input = frame[2].user_input

\* C14, as claimed: two invocations of the fallback responder with the same
\* prompt return the same text.
C14_SamePromptSameText ==
    InvokedTwice => frame[1].response = frame[2].response

\* C14, amended: two invocations with the same prompt return the same text,
\* whatever model was requested, unless the prompt is answered by rule 4; the
\* two texts of rule 4 differ at most in the time they embed.
C14_SameTextButTime ==
    InvokedTwice =>
        LET s == frame[1].user_input
            a == frame[1].response
            b == frame[2].response
        IN  /\ FirstRule(s) # 4 => a = b
            /\ FirstRule(s) = 4 =>
                    /\ [a EXCEPT !.time = 0] = [b EXCEPT !.time = 0]
                    /\ a.time <= b.time /\ b.time <= now

C14_Witness ==
    /\ InvokedTwice
    /\ frame[1].model # frame[2].model
    /\ FirstRule(frame[1].user_input) = 4
    /\ frame[1].response.time # frame[2].response.time

-----------------------------------------------------------------------------
(* Status: get_system_status, GET /status and the status command of the CLI *)

LOG_FILE == "logs/ai_hub_log.jsonl"

\* What the probe GET /api/tags yields
ProbeReplies ==
    { HttpReply(200, "object", FALSE, NoText),
      HttpReply(503, "invalid", FALSE, NoText),
      Raises("ConnectionError"),
      Raises("ReadTimeout"),
      Raises("TooManyRedirects") }

\* What psutil.virtual_memory() reads: percent used, bytes available in GB
MemoryReadings == { [percent |-> 10, available_gb |-> 8], [percent |-> 90, available_gb |-> 1] }

\* A clause that names one exception class
ProbeHandlers_connection_only == <<"ConnectionError">>

\* The bare except: of get_system_status
ProbeHandlers == <<"BaseException">>

\* LocalAIHub.get_system_status: the dictionary it returns, or the exception
\* that leaves it
get_system_status(probe, memory, counter, clock) ==
    LET exc == IF probe.kind = "raise" THEN probe.exc ELSE ""
        ollama_running == exc = "" /\ probe.status = 200
    IN  [raises |-> IF exc # "" /\ Catches(ProbeHandlers, exc) = 0 THEN exc ELSE "",
         info |-> [status |-> "running",
                   uptime_seconds |-> clock,
                   requests_handled |-> counter,
                   memory_usage_percent |-> memory.percent,
                   memory_available_gb |-> memory.available_gb,
                   ollama_running |-> ollama_running,
                   log_file |-> LOG_FILE,
                   timestamp |-> clock]]

\* The response of the /status route
StatusResponse(probe, memory) ==
    LET g == get_system_status(probe, memory, total_requests, now) IN
    IF g.raises = ""
        THEN [code |-> 200, probe |-> probe, body |-> g.info]
        ELSE [code |-> 500, probe |-> probe,
              body |-> [error |-> "Could not fetch status", detail |-> g.raises]]

\* GET /status from a client other than the CLI
status(probe, memory) ==
    /\ status_http' = StatusResponse(probe, memory)
    /\ UNCHANGED <<total_requests, log, stdout, sent, ollama, now, pc, frame, inbox, http,
                   returned, log_entry, cli, chat>>

\* dict.get(key, default)
Get(d, key, default) == IF key \in DOMAIN d THEN d[key] ELSE default

\* The keys check_status reads for the request count and the backend flag
CliKeys_of_server == [count |-> "requests_handled", backend |-> "ollama_running"]

CliKeys == [count |-> "requests_served", backend |-> "ollama_available"]

\* What check_status prints: the status lines when _send_request reports
\* success, the error otherwise. A missing ollama_available reads None, which
\* is false in the conditional expression.
Display(success, result) ==
    IF success
        THEN [shown |-> "status",
              questions_answered |-> Get(result, CliKeys.count, 0),
              ollama_running |-> Get(result, CliKeys.backend, FALSE) = TRUE]
        ELSE [shown |-> "error", questions_answered |-> 0, ollama_running |-> FALSE]

\* The status command of the CLI: GET /status, then the display
check_status(probe, memory) ==
    /\ status_http' = StatusResponse(probe, memory)
    /\ cli' = Display(status_http'.code = 200, status_http'.body)
    /\ UNCHANGED <<total_requests, log, stdout, sent, ollama, now, pc, frame, inbox, http,
                   returned, log_entry, chat>>

\* The questions asked while the status is watched
StatusBodies == { [prompt |-> JStr(P_Hi)], [prompt |-> JStr(P_blank), model |-> FALLBACK_MODEL] }

InitStatus ==
    /\ Init
    /\ ollama \in { HttpReply(200, "object", TRUE, RemoteText), Raises("ConnectionError") }

NextStatus ==
    \/ \E r \in Requests, data \in StatusBodies : Serial /\ generate(r, data)
    \/ \E r \in Requests : Store(r)
    \/ \E r \in Requests : Query(r)
    \/ \E r \in Requests, writable \in BOOLEAN : _save_interaction(r, writable)
    \/ \E r \in Requests : Return(r)
    \/ \E probe \in ProbeReplies, memory \in MemoryReadings : status(probe, memory)
    \/ \E probe \in ProbeReplies, memory \in MemoryReadings : check_status(probe, memory)

SpecStatus == InitStatus /\ [][NextStatus]_vars

\* C15: get_system_status never raises, whatever the probe of the backend
\* yields: GET /status is answered 200; ollama_running is true only when the
\* probe was answered 200, false when it was refused, timed out or raised any
\* other exception; requests_handled is the current counter; the counter, the
\* log and the calls in progress are left as they were.
C15_StatusReadOnly ==
    [][status_http' # status_http =>
        /\ status_http'.code = 200
        /\ status_http'.body.requests_handled = total_requests
        /\ status_http'.body.ollama_running =
                (status_http'.probe.kind = "http" /\ status_http'.probe.status = 200)
        /\ UNCHANGED <<total_requests, log, stdout, sent, pc, frame, http, returned>>]_vars

C15_Witness ==
    /\ status_http.code = 200
    /\ status_http.probe = Raises("ReadTimeout")
    /\ ~status_http.body.ollama_running
    /\ status_http.body.requests_handled = 1
    /\ total_requests = 2
    /\ Len(log) = 2

\* C20: whatever the counter and the backend are, a status command of the CLI
\* that got the server's status shows 0 questions answered and Ollama not
\* running, because the keys it reads are not in the response.
C20_CliShowsDefaults ==
    /\ cli.shown = "status" =>
            /\ cli.questions_answered = 0
            /\ ~cli.ollama_running
    /\ status_http.code = 200 =>
            /\ CliKeys.count \notin DOMAIN status_http.body
            /\ CliKeys.backend \notin DOMAIN status_http.body

C20_Witness ==
    /\ cli.shown = "status"
    /\ cli.questions_answered = 0
    /\ ~cli.ollama_running
    /\ status_http.body.requests_handled = 2
    /\ status_http.body.ollama_running

\* C16: in every reachable state, concurrent callers included, the counter
\* equals the number of generate_response calls that have passed their
\* increment.
C16_CounterCountsCalls ==
    total_requests =
        Cardinality({r \in Requests :
            WellFormed(inbox[r]) /\ pc[r] \in {"query", "save", "return", "done"}})

\* C17: a failed backend attempt yields no response text and exactly one error:
\* a non-200 reply the error with its status code, a refused connection "Ollama
\* isn't running", every timeout, one while connecting included, "Request took
\* too long", any other exception "Something went wrong" with its message.
C17_ClassifiedByKind ==
    \A r \in Requests :
        LET reply == frame[r].reply IN
        WellFormed(inbox[r]) /\ pc[r] \in {"save", "return", "done"} =>
            /\ reply.kind = "http" /\ reply.status # 200 =>
                    /\ frame[r].error = Error("Ollama API error", reply.status, "")
                    /\ frame[r].model_used = FALLBACK_MODEL
            /\ reply.kind = "raise" =>
                    /\ frame[r].model_used = FALLBACK_MODEL
                    /\ frame[r].error =
                            IF reply.exc \in {"ConnectTimeout", "ReadTimeout"}
                                THEN Error("Request took too long", 0, "")
                            ELSE IF reply.exc = "ConnectionError"
                                THEN Error("Ollama isn't running - please start it!", 0, "")
                            ELSE Error("Something went wrong", 0, reply.exc)

\* C18: under any interleaving, the request_id in the log record that a call
\* built equals the request_id returned to that call's caller.
C18_LoggedIdIsReturnedId ==
    \A r \in Requests :
        Answered(r) => log_entry[r].request_id = http[r].result.request_id

-----------------------------------------------------------------------------
(* The chat mode of the CLI *)

\* Questions asked in one chat session
MaxLines == 2

\* What input() yields: a line that was typed, or the end of input, or Ctrl+C
Line(text) == [kind |-> "line", text |-> text]

ChatEvents ==
    { Line(<<"q","u","i","t">>), Line(<<"Q","U","I","T">>), Line(<<" ","E","x","i","t","\n">>),
      Line(<<"q">>), Line(<<"Q"," ">>), Line(<<>>), Line(<<" ","\t">>),
      Line(<<"H","i">>), Line(<<" ","h","i"," ">>), Line(<<"q","u","i","t"," ","i","t">>),
      Line(<<"q","q">>), Line(<<"e","x","i","t","!">>),
      [kind |-> "EOFError", text |-> <<>>], [kind |-> "KeyboardInterrupt", text |-> <<>>] }

\* The words that end the chat
QuitWords == { <<"q","u","i","t">>, <<"e","x","i","t">>, <<"q">> }

\* The comparison without .lower()
Verdict_case_sensitive(user_input) ==
    IF user_input \in QuitWords THEN "break"
    ELSE IF user_input = <<>> THEN "continue"
    ELSE "ask_ai"

\* chat_mode, lines 88-96: what the loop does with the stripped line
Verdict(user_input) ==
    IF lower(user_input) \in QuitWords THEN "break"
    ELSE IF user_input = <<>> THEN "continue"
    ELSE "ask_ai"

\* chat_mode, one turn of the loop: input() returns or raises, the line is
\* stripped, then the loop ends, goes on, or asks
chat_mode(ev) ==
    /\ chat.at = "input"
    /\ Len(chat.asked) < MaxLines
    /\ IF ev.kind # "line"
       THEN chat' = [chat EXCEPT !.at = "ended", !.event = ev]
       ELSE LET user_input == strip(ev.text)
                verdict == Verdict(user_input)
            IN  CASE verdict = "break" -> chat' = [chat EXCEPT !.at = "ended", !.event = ev]
                  [] verdict = "continue" -> chat' = [chat EXCEPT !.event = ev]
                  [] OTHER -> chat' = [at |-> "ask_ai",
                                       asked |-> Append(chat.asked, user_input),
                                       event |-> ev]
    /\ UNCHANGED <<total_requests, log, stdout, sent, ollama, now, pc, frame, inbox, http,
                   returned, log_entry, status_http, cli>>

\* ask_ai returns, with an answer or with an error that it printed
ask_ai_returns ==
    /\ chat.at = "ask_ai"
    /\ chat' = [chat EXCEPT !.at = "input"]
    /\ UNCHANGED <<total_requests, log, stdout, sent, ollama, now, pc, frame, inbox, http,
                   returned, log_entry, status_http, cli>>

\* Ctrl+C while ask_ai waits for the server
ask_ai_interrupted ==
    /\ chat.at = "ask_ai"
    /\ chat' = [chat EXCEPT !.at = "ended"]
    /\ UNCHANGED <<total_requests, log, stdout, sent, ollama, now, pc, frame, inbox, http,
                   returned, log_entry, status_http, cli>>

NextChat ==
    \/ \E ev \in ChatEvents : chat_mode(ev)
    \/ ask_ai_returns
    \/ ask_ai_interrupted

InitChat == Init /\ ollama = Raises("ConnectionError")

SpecChat == InitChat /\ [][NextChat]_vars

\* s without its leading and trailing whitespace
Trimmed(s) ==
    LET inner == {i \in 1..Len(s) : s[i] \notin Whitespace} IN
    IF inner = {} THEN <<>>
    ELSE LET first == CHOOSE i \in inner : \A j \in inner : i <= j
             last == CHOOSE i \in inner : \A j \in inner : j <= i
         IN  [k \in 1..(last - first + 1) |-> s[first + k - 1]]

\* t is quit, exit or q, in any case
IsQuitWord(t) ==
    \E w \in {<<"q","u","i","t">>, <<"e","x","i","t">>, <<"q">>} :
        /\ Len(t) = Len(w)
        /\ \A k \in 1..Len(w) : SameLetter(t[k], w[k])

\* C19: at each input the chat loop sends the trimmed line exactly when it is
\* non-empty and not quit, exit or q in any case; it skips an empty line and
\* goes on; it ends, sending nothing, on quit, exit, q, end of input and
\* keyboard interrupt.
C19_SendsExactlyQuestions ==
    [][chat.at = "input" /\ chat' # chat =>
        LET ev == chat'.event
            t == Trimmed(ev.text)
            question == ev.kind = "line" /\ t # <<>> /\ ~IsQuitWord(t)
            stop == ev.kind \in {"EOFError", "KeyboardInterrupt"}
                        \/ (ev.kind = "line" /\ IsQuitWord(t))
        IN  /\ chat'.asked = IF question THEN Append(chat.asked, t) ELSE chat.asked
            /\ chat'.at = IF stop THEN "ended" ELSE IF question THEN "ask_ai" ELSE "input"]_vars

C19_Witness ==
    /\ chat.at = "ended"
    /\ chat.event = Line(<<" ","E","x","i","t","\n">>)
    /\ chat.asked = << <<"h","i">> >>

====
